---- MODULE Spec2Model ----
(***************************************************************************)
(* Model of the akvcam doubly-linked list (src/src/list.c).                *)
(*                                                                         *)
(* Memory is a small heap of element slots addressed 1..MaxNodes.  A slot  *)
(* that was passed to kfree keeps its bytes on a production build and is   *)
(* overwritten with a poison pattern on a debug build; kzalloc may hand    *)
(* any free slot out again (zeroed).  A dereference of NULL or of a        *)
(* poisoned pointer stops the run ("oops"); a loop that can never end is   *)
(* recorded as "hang".                                                     *)
(***************************************************************************)
EXTENDS Integers, Sequences, FiniteSets

\* ---- bounds -------------------------------------------------------------
MaxNodes == 3
MaxPush == 3
MaxRef == 2
MaxCalls == 2
MaxForeign == 1
BlockLen == 2

\* ---- program constants --------------------------------------------------
NULL == 0
POISON == -1
ENOMEM == 12
DELETER == 1
FAULT == -2

Nodes == 1..MaxNodes
\* Two list instances share the allocator.  The caller works on the lists
\* of Own; the other list is only appended to (at most MaxForeign elements)
\* and supplies element references that are foreign to the first.
Lists == {1, 2}
Own == {1}
\* The elements, numbered by the push that created them.  A payload handle
\* is a block the caller allocated for one push and carries that number.
Eids == 1..MaxPush
\* the block that holds the bytes the caller searches for
TARGET == MaxPush + 1
\* what a block of BlockLen bytes can hold
Bytes == {0, 1}
Blocks == [1..BlockLen -> Bytes]
ZeroBlock == [k \in 1..BlockLen |-> 0]

\* handle[l]    the caller's akvcam_list_t variable (NULL once destroyed)
\* lst[l]       struct akvcam_list: self, size, head, tail
\* obj[l]       the wrapper object created for list l and its use count
\* heap[a]      the element slot at address a
\* abs[l]       the elements pushed to l and not released since, in order
\* calls[e]     how often the deleter of element e has been called
\* nextEid      the number the next push gets
\* lastError    the last-error slot
\* last         the last call: operation, list, argument, results and the
\*              deleter calls it made
\* status       "ok", or how the run ended ("oops", "hang")
\* debug, nulling   the build and the kind of deleter, see Init
\* mem[b]       the bytes of payload block b and of the search buffer
\* iter         the caller's iteration: the list, the cursor variable
\*              handed to next(), the payloads returned since the cursor
\*              was fresh, and whether the end was reported
VARIABLES handle, lst, obj, heap, abs, calls, nextEid, lastError, last,
          status, debug, nulling, mem, iter

vars == <<handle, lst, obj, heap, abs, calls, nextEid, lastError, last,
          status, debug, nulling, mem, iter>>

\* struct akvcam_list_element, zeroed (kzalloc); live and eid are bookkeeping:
\* live = the slot is currently allocated, eid = which push created the
\* element stored in it.
ZeroNode == [live |-> FALSE, data |-> NULL, deleter |-> NULL,
             prev |-> NULL, next |-> NULL, eid |-> 0]

PoisonNode == [live |-> FALSE, data |-> POISON, deleter |-> POISON,
               prev |-> POISON, next |-> POISON, eid |-> 0]

\* struct akvcam_list, zeroed
ZeroList == [self |-> NULL, size |-> 0, head |-> NULL, tail |-> NULL]

ZeroObj == [live |-> FALSE, ref |-> 0]

\* akvcam_list_element_t element = NULL: the initial cursor
FreshIter == [l |-> 0, cursor |-> NULL, seen |-> <<>>, ended |-> FALSE]

NoOp == [op |-> "none", l |-> 0, arg |-> 0, ok |-> FALSE, data |-> NULL,
         deleter |-> NULL, log |-> <<>>]

\* ---- the reference-counting wrapper (external collaborator) -------------
akvcam_object_new == [live |-> TRUE, ref |-> 1]

akvcam_object_ref(o) == [o EXCEPT !.ref = @ + 1]

akvcam_object_unref(o) == [o EXCEPT !.ref = @ - 1]

\* akvcam_object_free(&self->self): nothing to release behind a NULL pointer
akvcam_object_free(o, self) == IF self = NULL THEN o ELSE ZeroObj

\* akvcam_list_new: a zeroed list struct holding its wrapper
akvcam_list_new(l) == [ZeroList EXCEPT !.self = l]

\* Every list has been created by akvcam_list_new.  debug: the build
\* poisons freed memory and detects double frees.  nulling: the deleters
\* the caller supplies reset the payload handle they are given (a deleter
\* such as akvcam_list_delete does so only on the final release).  Every
\* deleter call is followed by the kfree of the same slot, so on a debug
\* build, which overwrites the slot, the two kinds of deleter do not differ.
Init ==
    /\ handle = [l \in Lists |-> l]
    /\ lst = [l \in Lists |-> akvcam_list_new(l)]
    /\ obj = [l \in Lists |-> akvcam_object_new]
    /\ heap = [a \in Nodes |-> ZeroNode]
    /\ abs = [l \in Lists |-> <<>>]
    /\ calls = [e \in Eids |-> 0]
    /\ nextEid = 1
    /\ lastError = 0
    /\ last = NoOp
    /\ status = "ok"
    /\ debug \in BOOLEAN
    /\ nulling \in BOOLEAN
    /\ debug => nulling
    /\ mem = [b \in Eids \cup {TARGET} |-> ZeroBlock]
    /\ iter = FreshIter

\* ---- the machine state threaded through one call ------------------------
\* heap, list structs, bookkeeping and the deleter calls made by this call
Machine == [heap |-> heap, lst |-> lst, abs |-> abs, calls |-> calls,
            log |-> <<>>, st |-> "ok", ok |-> FALSE, rdata |-> NULL,
            rdel |-> NULL]

Oops(m) == [m EXCEPT !.st = "oops"]

Hang(m) == [m EXCEPT !.st = "hang"]

\* element->deleter(&element->data), guarded by data && deleter
InvokeDeleter(m, it) ==
    IF m.st # "ok" THEN m
    ELSE IF it \notin Nodes THEN Oops(m)
    ELSE LET n == m.heap[it] IN
         IF n.data # NULL /\ n.deleter # NULL
         THEN IF n.deleter # DELETER THEN Oops(m)
              ELSE [m EXCEPT !.calls[n.eid] = @ + 1,
                             !.log = Append(@, n.eid),
                             !.heap[it].data =
                                 IF nulling THEN NULL ELSE @]
         ELSE m

\* kfree(it): a live slot is released (bytes kept, or poisoned on a debug
\* build); freeing a slot twice is caught on a debug build and silent
\* otherwise.
Kfree(m, it) ==
    IF m.st # "ok" THEN m
    ELSE IF it = NULL THEN m
    ELSE IF it \notin Nodes THEN Oops(m)
    ELSE IF ~m.heap[it].live
         THEN IF debug THEN Oops(m) ELSE m
         ELSE [m EXCEPT
                 !.heap[it] = IF debug THEN PoisonNode
                              ELSE [@ EXCEPT !.live = FALSE],
                 !.abs = [k \in Lists |->
                            SelectSeq(m.abs[k],
                                      LAMBDA e: e.eid # m.heap[it].eid)]]

\* element = element->next, n times; FAULT when a step dereferences NULL or
\* a poisoned pointer
RECURSIVE Walk(_, _, _)
Walk(h, element, n) ==
    IF n = 0 THEN element
    ELSE IF element \notin Nodes THEN FAULT
    ELSE Walk(h, h[element].next, n - 1)

\* ---- queries ------------------------------------------------------------
akvcam_list_size(l) ==
    IF handle[l] = NULL THEN 0 ELSE lst[l].size

akvcam_list_empty(l) ==
    IF handle[l] = NULL THEN TRUE ELSE lst[l].size < 1

\* The result of at() is tagged with what the returned pointer refers to.
akvcam_list_at(l, i) ==
    IF handle[l] = NULL THEN [kind |-> "null", val |-> NULL]
    ELSE IF i >= lst[l].size THEN [kind |-> "null", val |-> NULL]
    ELSE IF i = 0
         THEN IF lst[l].head \notin Nodes THEN [kind |-> "oops", val |-> NULL]
              ELSE [kind |-> "payload", val |-> heap[lst[l].head].data]
    ELSE IF i = lst[l].size - 1
         THEN [kind |-> "node", val |-> lst[l].tail]
    ELSE LET element == Walk(heap, lst[l].head, i) IN
         IF element \notin Nodes THEN [kind |-> "oops", val |-> NULL]
         ELSE [kind |-> "payload", val |-> heap[element].data]

\* ---- push_back ----------------------------------------------------------
\* element is the result of kzalloc (NULL or a free slot), eid names the
\* new element in the bookkeeping.
\* a push_back that does not link the old tail to the new element
PushBack_NoLink(m, l, data, deleter, element, eid) ==
    LET s == m.lst[l]
        h1 == [m.heap EXCEPT ![element] =
                  [live |-> TRUE, data |-> data, deleter |-> deleter,
                   prev |-> s.tail, next |-> NULL, eid |-> eid]]
        a1 == [m.abs EXCEPT ![l] =
                  Append(@, [eid |-> eid, data |-> data, deleter |-> deleter])]
        m1 == [m EXCEPT !.heap = h1, !.abs = a1, !.lst[l].size = @ + 1]
    IN
    IF s.tail # NULL
    THEN [m1 EXCEPT !.lst[l].tail = element, !.ok = TRUE]
    ELSE [m1 EXCEPT !.lst[l].head = element,
                    !.lst[l].tail = element,
                    !.ok = TRUE]

PushBack(m, l, data, deleter, element, eid) ==
    LET s == m.lst[l]
        h1 == [m.heap EXCEPT ![element] =
                  [live |-> TRUE, data |-> data, deleter |-> deleter,
                   prev |-> s.tail, next |-> NULL, eid |-> eid]]
        a1 == [m.abs EXCEPT ![l] =
                  Append(@, [eid |-> eid, data |-> data, deleter |-> deleter])]
        m1 == [m EXCEPT !.heap = h1, !.abs = a1, !.lst[l].size = @ + 1]
    IN
    IF s.tail # NULL
    THEN IF s.tail \notin Nodes THEN Oops(m1)
         ELSE [m1 EXCEPT !.heap[s.tail].next = element,
                         !.lst[l].tail = element,
                         !.ok = TRUE]
    ELSE [m1 EXCEPT !.lst[l].head = element,
                    !.lst[l].tail = element,
                    !.ok = TRUE]

\* ---- pop ----------------------------------------------------------------
PopSelect(m, l, i) ==
    IF i = 0 THEN m.lst[l].head
    ELSE IF i = m.lst[l].size - 1 THEN m.lst[l].tail
    ELSE Walk(m.heap, m.lst[l].head, i)

PopUnlinkPrev(m, l, element) ==
    IF m.st # "ok" THEN m
    ELSE LET n == m.heap[element] IN
         IF n.prev # NULL
         THEN IF n.prev \notin Nodes THEN Oops(m)
              ELSE [m EXCEPT !.heap[n.prev].next = n.next]
         ELSE [m EXCEPT !.lst[l].head = n.next]

\* a pop that forgets to move tail
PopUnlinkNext_NoTail(m, l, element) ==
    IF m.st # "ok" THEN m
    ELSE LET n == m.heap[element] IN
         IF n.next # NULL
         THEN IF n.next \notin Nodes THEN Oops(m)
              ELSE [m EXCEPT !.heap[n.next].prev = n.prev]
         ELSE m

PopUnlinkNext(m, l, element) ==
    IF m.st # "ok" THEN m
    ELSE LET n == m.heap[element] IN
         IF n.next # NULL
         THEN IF n.next \notin Nodes THEN Oops(m)
              ELSE [m EXCEPT !.heap[n.next].prev = n.prev]
         ELSE [m EXCEPT !.lst[l].tail = n.prev]

PopSize(m, l) ==
    IF m.st # "ok" THEN m
    ELSE [m EXCEPT !.lst[l].size = @ - 1, !.ok = TRUE]

Pop(m, l, i) ==
    IF i >= m.lst[l].size \/ m.lst[l].size < 1 THEN m
    ELSE LET element == PopSelect(m, l, i) IN
         IF element \notin Nodes THEN Oops(m)
         ELSE LET m1 == [m EXCEPT !.rdata = m.heap[element].data,
                                  !.rdel = m.heap[element].deleter]
                  m2 == PopUnlinkPrev(m1, l, element)
                  m3 == PopUnlinkNext(m2, l, element)
                  m4 == Kfree(m3, element)
              IN PopSize(m4, l)

\* ---- erase --------------------------------------------------------------
EraseUnlinkPrev(m, it) ==
    IF m.st # "ok" THEN m
    ELSE LET n == m.heap[it] IN
         IF n.prev # NULL
         THEN IF n.prev \notin Nodes THEN Oops(m)
              ELSE [m EXCEPT !.heap[n.prev].next = n.next]
         ELSE m

EraseUnlinkNext(m, it) ==
    IF m.st # "ok" THEN m
    ELSE LET n == m.heap[it] IN
         IF n.next # NULL
         THEN IF n.next \notin Nodes THEN Oops(m)
              ELSE [m EXCEPT !.heap[n.next].prev = n.prev]
         ELSE m

EraseHit(m, it) ==
    Kfree(EraseUnlinkNext(EraseUnlinkPrev(InvokeDeleter(m, it), it), it), it)

\* an erase that does not compare the reference
EraseWalk_AnyElement(m, it, element, fuel) ==
    IF it = NULL THEN m ELSE EraseHit(m, it)

RECURSIVE EraseWalk(_, _, _, _)
EraseWalk(m, it, element, fuel) ==
    IF it = NULL THEN m
    ELSE IF it = element THEN EraseHit(m, it)
    ELSE IF it \notin Nodes THEN Oops(m)
    ELSE IF fuel = 0 THEN Hang(m)
    ELSE EraseWalk(m, m.heap[it].next, element, fuel - 1)

Erase(m, l, element) ==
    EraseWalk(m, m.lst[l].head, element, MaxNodes)

\* ---- clear --------------------------------------------------------------
\* a clear whose loop releases the last element without its deleter
RECURSIVE ClearWalk_SkipsLast(_, _, _)
ClearWalk_SkipsLast(m, element, fuel) ==
    IF m.st # "ok" THEN m
    ELSE IF element = NULL THEN m
    ELSE IF element \notin Nodes THEN Oops(m)
    ELSE IF fuel = 0 THEN Hang(m)
    ELSE LET next == m.heap[element].next
             m1 == IF next = NULL THEN m ELSE InvokeDeleter(m, element)
         IN ClearWalk_SkipsLast(Kfree(m1, element), next, fuel - 1)

RECURSIVE ClearWalk(_, _, _)
ClearWalk(m, element, fuel) ==
    IF m.st # "ok" THEN m
    ELSE IF element = NULL THEN m
    ELSE IF element \notin Nodes THEN Oops(m)
    ELSE IF fuel = 0 THEN Hang(m)
    ELSE LET m1 == InvokeDeleter(m, element)
             next == m1.heap[element].next
         IN ClearWalk(Kfree(m1, element), next, fuel - 1)

ClearReset(m, l) ==
    IF m.st # "ok" THEN m
    ELSE [m EXCEPT !.lst[l] = ZeroList]

Clear(m, l) ==
    ClearReset(ClearWalk(m, m.lst[l].head, MaxNodes), l)

\* ---- committing one call ------------------------------------------------
\* A caller that makes any other call on a list gives up the cursor of the
\* iteration it had under way and starts the next one with a fresh cursor.
\* The slots some pointer of the program can still lead to: those the list
\* structs name, and those the links stored in such slots name.
RECURSIVE Reach(_, _)
Reach(h, seen) ==
    LET more == {a \in Nodes : \E b \in seen : a \in {h[b].prev, h[b].next}}
    IN IF more \subseteq seen THEN seen ELSE Reach(h, seen \cup more)

Roots(ls) == {a \in Nodes : \E l \in Lists : a \in {ls[l].head, ls[l].tail}}

\* The bytes of a released slot that no pointer leads to can never be read
\* again (kzalloc zeroes the slot before it is used): they are forgotten.
Forget(h, ls) ==
    LET keep == Reach(h, Roots(ls))
    IN [a \in Nodes |-> IF h[a].live \/ a \in keep THEN h[a] ELSE ZeroNode]

Commit(m, op, l, arg) ==
    /\ \A e \in Eids : m.calls[e] <= MaxCalls
    /\ heap' = Forget(m.heap, m.lst)
    /\ lst' = m.lst
    /\ abs' = m.abs
    /\ calls' = m.calls
    /\ status' = m.st
    /\ last' = [op |-> op, l |-> l, arg |-> arg,
                ok |-> (m.st = "ok" /\ m.ok),
                data |-> IF m.st = "ok" THEN m.rdata ELSE NULL,
                deleter |-> IF m.st = "ok" THEN m.rdel ELSE NULL,
                log |-> m.log]
    /\ iter' = FreshIter
    /\ UNCHANGED mem

\* What kzalloc can return: NULL, any released slot that a pointer still
\* leads to, or a free slot that nothing refers to (these are
\* interchangeable, so the lowest stands for all).
FreeSlots ==
    LET keep == Reach(heap, Roots(lst))
        fresh == {a \in Nodes : ~heap[a].live /\ a \notin keep}
        freed == {a \in Nodes : ~heap[a].live /\ a \in keep}
    IN freed \cup {a \in fresh : \A b \in fresh : a <= b}

\* ---- actions ------------------------------------------------------------
Frame(l, op, ok) ==
    /\ last' = [op |-> op, l |-> l, arg |-> 0, ok |-> ok, data |-> NULL,
                deleter |-> NULL, log |-> <<>>]
    /\ iter' = FreshIter
    /\ UNCHANGED <<heap, lst, abs, calls, status, mem>>

akvcam_object_ref_list(l) ==
    /\ status = "ok"
    /\ handle[l] # NULL
    /\ lst[l].self # NULL
    /\ obj[l].ref < MaxRef
    /\ obj' = [obj EXCEPT ![l] = akvcam_object_ref(@)]
    /\ Frame(l, "ref", TRUE)
    /\ UNCHANGED <<handle, nextEid, lastError, debug, nulling>>

\* The teardown part of akvcam_list_delete, reached when unref returned <= 0;
\* o is the wrapper as unref left it.
Teardown(l, o) ==
    LET m == Clear(Machine, l) IN
    /\ Commit([m EXCEPT !.abs[l] = IF m.st = "ok" THEN <<>> ELSE @,
                        !.ok = TRUE],
              "delete", l, 0)
    /\ IF m.st = "ok"
       THEN /\ obj' = [obj EXCEPT
                         ![l] = akvcam_object_free(o, m.lst[l].self)]
            /\ handle' = [handle EXCEPT ![l] = NULL]
       ELSE /\ obj' = [obj EXCEPT ![l] = o]
            /\ UNCHANGED handle

\* unref names what unref does on a NULL wrapper pointer, which the list
\* code does not decide: "oops", or a count that is ("zero") or is not
\* ("held") above zero.
akvcam_list_delete(l, unref) ==
    /\ status = "ok"
    /\ UNCHANGED <<nextEid, lastError, debug, nulling>>
    /\ IF handle[l] = NULL
       THEN Frame(l, "delete", FALSE) /\ UNCHANGED <<handle, obj>>
       ELSE IF lst[l].self = NULL
       THEN CASE unref = "oops" ->
                   /\ status' = "oops"
                   /\ last' = [NoOp EXCEPT !.op = "delete", !.l = l]
                   /\ iter' = FreshIter
                   /\ UNCHANGED <<heap, lst, abs, calls, handle, obj, mem>>
              [] unref = "held" ->
                   Frame(l, "delete", FALSE) /\ UNCHANGED <<handle, obj>>
              [] OTHER -> Teardown(l, obj[l])
       ELSE /\ unref = "zero"
            /\ IF akvcam_object_unref(obj[l]).ref > 0
               THEN /\ obj' = [obj EXCEPT ![l] = akvcam_object_unref(@)]
                    /\ Frame(l, "delete", FALSE)
                    /\ UNCHANGED handle
               ELSE Teardown(l, akvcam_object_unref(obj[l]))

DoPushBack(op, l, data, deleter, element) ==
    /\ status = "ok"
    /\ UNCHANGED <<handle, obj, debug, nulling>>
    /\ IF handle[l] = NULL
       THEN Frame(l, op, FALSE) /\ UNCHANGED <<nextEid, lastError>>
       ELSE IF element = NULL
       THEN /\ lastError' = -ENOMEM
            /\ Frame(l, op, FALSE)
            /\ UNCHANGED nextEid
       ELSE /\ nextEid <= MaxPush
            /\ LET m == PushBack(Machine, l, data, deleter, element, nextEid)
               IN /\ Commit(m, op, l, data)
                  /\ lastError' = IF m.st = "ok" THEN 0 ELSE lastError
            /\ nextEid' = nextEid + 1

akvcam_list_push_back(l, data, deleter, element) ==
    DoPushBack("push_back", l, data, deleter, element)

\* kmemdup yields a new block, which becomes the payload, or NULL
Kmemdup(block, copied) == IF copied THEN block ELSE NULL

akvcam_list_push_back_copy(l, deleter, copied, element) ==
    DoPushBack("push_back_copy", l, Kmemdup(nextEid, copied), deleter, element)

akvcam_list_pop(l, i) ==
    /\ status = "ok"
    /\ UNCHANGED <<handle, obj, nextEid, lastError, debug, nulling>>
    /\ IF handle[l] = NULL
       THEN Frame(l, "pop", FALSE)
       ELSE Commit(Pop(Machine, l, i), "pop", l, i)

akvcam_list_erase(l, element) ==
    /\ status = "ok"
    /\ UNCHANGED <<handle, obj, nextEid, lastError, debug, nulling>>
    /\ IF handle[l] = NULL
       THEN Commit(Oops(Machine), "erase", l, element)
       ELSE Commit([Erase(Machine, l, element) EXCEPT !.ok = TRUE],
                   "erase", l, element)

akvcam_list_clear(l) ==
    /\ status = "ok"
    /\ UNCHANGED <<handle, obj, nextEid, lastError, debug, nulling>>
    /\ IF handle[l] = NULL
       THEN Frame(l, "clear", FALSE)
       ELSE Commit([Clear(Machine, l) EXCEPT !.ok = TRUE], "clear", l, 0)

\* The calls of the caller.  kzalloc succeeds here; the reference count of
\* each list stays at the 1 it was created with.
Next ==
    \/ \E l \in Own : akvcam_list_delete(l, "zero")
    \/ \E l \in Own, data \in {NULL, nextEid},
          deleter \in {NULL, DELETER}, element \in FreeSlots :
          akvcam_list_push_back(l, data, deleter, element)
    \/ \E l \in Lists \ Own, element \in FreeSlots :
          /\ Len(abs[l]) < MaxForeign
          /\ akvcam_list_push_back(l, nextEid, DELETER, element)
    \/ \E l \in Own, deleter \in {NULL, DELETER},
          copied \in BOOLEAN, element \in FreeSlots :
          akvcam_list_push_back_copy(l, deleter, copied, element)
    \/ \E l \in Own, i \in 0..MaxPush : akvcam_list_pop(l, i)
    \/ \E l \in Own, element \in {NULL} \cup Nodes :
          akvcam_list_erase(l, element)
    \/ \E l \in Own : akvcam_list_clear(l)

Spec == Init /\ [][Next]_vars

\* ---- structure of a list ------------------------------------------------
\* the slots met by walking from a via next, up to the terminator
RECURSIVE ChainFrom(_, _, _)
ChainFrom(h, a, fuel) ==
    IF a \notin Nodes \/ fuel = 0 THEN <<>>
    ELSE <<a>> \o ChainFrom(h, h[a].next, fuel - 1)

Chain(l) == ChainFrom(heap, lst[l].head, MaxNodes + 1)

Live(l) == handle[l] # NULL /\ status = "ok"

SizeMatchesEnds(l) ==
    (lst[l].size = 0) <=> (lst[l].head = NULL /\ lst[l].tail = NULL)

\* the walk from head meets only allocated elements and ends at the
\* terminator
Intact(l) ==
    LET c == Chain(l) IN
    /\ Len(c) <= MaxNodes
    /\ \A k \in 1..Len(c) : heap[c[k]].live
    /\ IF Len(c) = 0 THEN lst[l].head = NULL
       ELSE heap[c[Len(c)]].next = NULL

SizeMatchesWalk(l) ==
    LET c == Chain(l) IN
    /\ Intact(l)
    /\ Len(c) = lst[l].size
    /\ lst[l].tail = IF Len(c) = 0 THEN NULL ELSE c[Len(c)]

LinksMutual(l) ==
    LET c == Chain(l) IN
    /\ \A k \in 1..Len(c) :
          /\ c[k] # lst[l].head =>
                /\ heap[c[k]].prev \in Nodes
                /\ heap[heap[c[k]].prev].next = c[k]
          /\ c[k] # lst[l].tail =>
                /\ heap[c[k]].next \in Nodes
                /\ heap[heap[c[k]].next].prev = c[k]
    /\ lst[l].head \in Nodes => heap[lst[l].head].prev = NULL
    /\ lst[l].tail \in Nodes => heap[lst[l].tail].next = NULL

LinksConsistent(l) ==
    LET c == Chain(l) IN
    /\ Len(c) <= MaxNodes
    /\ \A k \in 1..Len(c) :
          /\ heap[c[k]].live
          /\ heap[c[k]].prev = IF k = 1 THEN NULL ELSE c[k - 1]
          /\ heap[c[k]].next = IF k = Len(c) THEN NULL ELSE c[k + 1]
    /\ lst[l].tail = IF Len(c) = 0 THEN NULL ELSE c[Len(c)]
    /\ lst[l].head = IF Len(c) = 0 THEN NULL ELSE c[1]

\* the elements the list holds, as pushed and not yet removed, are exactly
\* the chain
HoldsItsElements(l) ==
    LET c == Chain(l) IN
    /\ Len(c) = Len(abs[l])
    /\ \A k \in 1..Len(c) :
          /\ heap[c[k]].eid = abs[l][k].eid
          /\ heap[c[k]].data = abs[l][k].data
          /\ heap[c[k]].deleter = abs[l][k].deleter

WellFormed(l) ==
    /\ Live(l)
    /\ SizeMatchesEnds(l)
    /\ SizeMatchesWalk(l)
    /\ LinksConsistent(l)
    /\ HoldsItsElements(l)

\* ---- C1 -----------------------------------------------------------------
\* C1: in every state reached by push_back, push_back_copy, pop, erase and
\* clear, size = 0 exactly when head and tail are both NULL.
C1_SizeZeroIffNoEnds == \A l \in Own : Live(l) => SizeMatchesEnds(l)

\* ---- C2 -----------------------------------------------------------------
\* C2: in every reachable state, size is the number of elements met by
\* walking from head via next, and the walk ends with tail and then the
\* terminator.
C2_SizeIsWalkLength == \A l \in Own : Live(l) => SizeMatchesWalk(l)

\* ---- C3 -----------------------------------------------------------------
\* C3: in every reachable state the links agree: element.prev.next = element
\* for every element except the head, element.next.prev = element for every
\* element except the tail, the head has no prev and the tail no next.
C3_LinksConsistent == \A l \in Own : Live(l) => LinksMutual(l)

\* ---- C4 -----------------------------------------------------------------
\* Only push_back is called, on lists as akvcam_list_new left them; kzalloc
\* may fail.
NextPush ==
    \/ \E l \in Own, data \in {NULL, nextEid}, deleter \in {NULL, DELETER},
          element \in {NULL} \cup FreeSlots :
          akvcam_list_push_back(l, data, deleter, element)
    \/ \E l \in Lists \ Own, element \in {NULL} \cup FreeSlots :
          /\ Len(abs[l]) < MaxForeign
          /\ akvcam_list_push_back(l, nextEid, DELETER, element)

SpecPush == Init /\ [][NextPush]_vars

\* C4: after any sequence of push_back calls on a fresh list, size() is the
\* number of successful pushes and at(i), for every i < size(), returns the
\* payload of the i-th successful push (for the last position too: the
\* payload, not the element node).
C4_AtReturnsPayloads ==
    \A l \in Lists :
        /\ akvcam_list_size(l) = Len(abs[l])
        /\ \A i \in 0..(akvcam_list_size(l) - 1) :
              akvcam_list_at(l, i) =
                  [kind |-> "payload", val |-> abs[l][i + 1].data]

\* ---- C5 -----------------------------------------------------------------
RemoveAt(s, k) == SubSeq(s, 1, k - 1) \o SubSeq(s, k + 1, Len(s))

\* at(j) hands back element e: its payload, or (for the last position) the
\* node that holds it
AtYields(l, j, e) ==
    LET r == akvcam_list_at(l, j) IN
    \/ r.kind = "payload" /\ r.val = e.data
    \/ r.kind = "node" /\ r.val \in Nodes /\ heap[r.val].eid = e.eid

AtYieldsAll(l) ==
    \A j \in 0..(lst[l].size - 1) : AtYields(l, j, abs[l][j + 1])

PopPost(l, i) ==
    /\ status' = "ok"
    /\ last'.ok
    /\ last'.data = abs[l][i + 1].data
    /\ last'.deleter = abs[l][i + 1].deleter
    /\ lst'[l].size = lst[l].size - 1
    /\ abs'[l] = RemoveAt(abs[l], i + 1)
    /\ WellFormed(l)'
    /\ AtYieldsAll(l)'
    /\ calls' = calls
    /\ last'.log = <<>>

\* C5: on a list of n elements, pop(i) with i < n succeeds and returns the
\* payload and deleter of the element at position i, decreases size by one,
\* moves every later element one position down (at(i) then yields the
\* element that was at i+1), keeps head and tail right, and calls no deleter.
C5_PopRemovesPosition ==
    [][\A l \in Own, i \in 0..(MaxPush - 1) :
          (WellFormed(l) /\ i < lst[l].size /\ akvcam_list_pop(l, i))
              => PopPost(l, i)]_vars

C5_Witness ==
    /\ last.op = "pop" /\ last.ok /\ last.arg = 1 /\ last.deleter = DELETER
    /\ Len(abs[1]) = 2
    /\ WellFormed(1)

\* ---- C6 -----------------------------------------------------------------
ChainSet(l) == {Chain(l)[k] : k \in 1..Len(Chain(l))}

PositionOf(l, e) == CHOOSE k \in 1..Len(Chain(l)) : Chain(l)[k] = e

ErasePost(l, e) ==
    LET k == PositionOf(l, e)
        el == abs[l][k]
    IN /\ status' = "ok"
       /\ last'.log = IF el.deleter # NULL THEN <<el.eid>> ELSE <<>>
       /\ e \notin {lst'[l].head, lst'[l].tail}
       /\ \A a \in Nodes : heap'[a].live => e \notin {heap'[a].prev, heap'[a].next}
       /\ abs'[l] = RemoveAt(abs[l], k)
       /\ WellFormed(l)'

\* C6: erase(e) for an element e of the list (head, interior, tail or the
\* only element) removes exactly e: its deleter, if it has one, is called,
\* afterwards neither head, tail nor any link refers to e, the other
\* elements keep their order, and the structural invariants hold.
C6_EraseRemovesMember ==
    [][\A l \in Own, e \in Nodes :
          (WellFormed(l) /\ e \in ChainSet(l) /\ akvcam_list_erase(l, e))
              => ErasePost(l, e)]_vars

\* ---- C7 -----------------------------------------------------------------
ElementIds(l) == {abs[l][k].eid : k \in 1..Len(abs[l])}

\* C7: erase(e) on a list whose walk from head does not meet e (a node of a
\* different list, for one) changes nothing: size, head, tail, payloads and
\* every link stay as they were and no deleter is called.
C7_EraseForeignIsNoOp ==
    [][\A l \in Own, e \in {NULL} \cup Nodes :
          (Live(l) /\ Intact(l) /\ e \notin ChainSet(l)
                   /\ akvcam_list_erase(l, e))
              => /\ UNCHANGED <<heap, lst, abs, calls, handle, obj>>
                 /\ status' = "ok"
                 /\ last'.log = <<>>]_vars

C7_Witness ==
    /\ last.op = "erase" /\ last.l = 1 /\ last.arg \in Nodes
    /\ heap[last.arg].live
    /\ heap[last.arg].eid \in ElementIds(2)
    /\ WellFormed(1)
    /\ Len(abs[1]) = 2
    /\ last.arg \notin ChainSet(1)

\* ---- C8 -----------------------------------------------------------------
AllOwned(l) ==
    \A k \in 1..Len(abs[l]) : abs[l][k].data # NULL /\ abs[l][k].deleter # NULL

ClearPost(l) ==
    /\ status' = "ok"
    /\ last'.log = [k \in 1..Len(abs[l]) |-> abs[l][k].eid]
    /\ \A e \in Eids :
          calls'[e] = calls[e] + (IF e \in ElementIds(l) THEN 1 ELSE 0)
    /\ akvcam_list_size(l)' = 0
    /\ lst'[l].head = NULL
    /\ lst'[l].tail = NULL
    /\ abs'[l] = <<>>

\* C8: clear() on a list of N elements that all have a payload and a deleter
\* calls the N deleters once each, from head to tail, and leaves size() = 0
\* with head and tail absent; on an empty list it calls nothing.
C8_ClearCallsDeletersInOrder ==
    [][\A l \in Own :
          (WellFormed(l) /\ AllOwned(l) /\ akvcam_list_clear(l))
              => ClearPost(l)]_vars

C8_Witness ==
    /\ last.op = "clear" /\ last.l = 1 /\ status = "ok"
    /\ Len(last.log) = 3
    /\ last.log[1] < last.log[2] /\ last.log[2] < last.log[3]
    /\ \A e \in {last.log[k] : k \in 1..3} : calls[e] = 1
    /\ lst[1].size = 0

\* ---- C9 -----------------------------------------------------------------
\* C9: over any sequence of push_back, pop, erase, clear and destroy, the
\* deleter of an element is called at most once.
C9_DeleterAtMostOnce == \A e \in Eids : calls[e] <= 1

\* ---- C10 ----------------------------------------------------------------
\* The calls of several holders of one list: each may take a reference and
\* each calls destroy when done.
NextRef ==
    \/ \E l \in Own : akvcam_object_ref_list(l)
    \/ \E l \in Own, unref \in {"oops", "zero", "held"} :
          akvcam_list_delete(l, unref)
    \/ \E l \in Own, data \in {NULL, nextEid},
          deleter \in {NULL, DELETER}, element \in FreeSlots :
          akvcam_list_push_back(l, data, deleter, element)
    \/ \E l \in Own, element \in Nodes : akvcam_list_erase(l, element)
    \/ \E l \in Own : akvcam_list_clear(l)

SpecRef == Init /\ [][NextRef]_vars

DestroyPost(l) ==
    IF handle[l] = NULL
    THEN UNCHANGED <<heap, lst, abs, calls, handle, obj>> /\ last'.log = <<>>
    ELSE IF obj[l].ref > 1
    THEN /\ last'.log = <<>>
         /\ obj'[l].ref = obj[l].ref - 1
         /\ UNCHANGED <<heap, lst, abs, calls, handle>>
    ELSE /\ \A k \in 1..Len(abs[l]) :
               abs[l][k].deleter # NULL => calls'[abs[l][k].eid] = 1
         /\ \A e \in Eids : calls'[e] <= 1
         /\ handle'[l] = NULL

\* C10: a destroy that leaves the use count above zero calls no deleter and
\* leaves the contents and the caller's handle as they were; the destroy
\* that brings the count to zero calls the deleter of every element still
\* in the list exactly once (none left out, none called twice) and nulls the
\* caller's handle; destroy on an absent handle does nothing.  The count is
\* that of the wrapper the list holds (a list that clear() has separated
\* from its wrapper is left aside here).
C10_DestroyIsReferenceCounted ==
    [][\A l \in Own :
          (/\ handle[l] # NULL => lst[l].self # NULL
           /\ \E unref \in {"oops", "zero", "held"} :
                 akvcam_list_delete(l, unref))
              => DestroyPost(l)]_vars

\* ---- find ---------------------------------------------------------------
\* an equality predicate of the caller (akvcam_are_equals_t)
EQUALS == 1

\* memcmp(p, x, size) == 0.  No byte is read when size is 0; otherwise a
\* payload handle that is NULL or poisoned is dereferenced.
Memcmp(p, x, size) ==
    IF size = 0 THEN "equal"
    ELSE IF p \notin DOMAIN mem THEN "oops"
    ELSE IF \A k \in 1..size : mem[p][k] = mem[x][k] THEN "equal"
    ELSE "differ"

\* The predicate the caller passes: true exactly for a payload whose bytes
\* are those of x, whatever length is given.
PayloadEquals(c, x, size) ==
    IF c \in DOMAIN mem /\ mem[c] = mem[x] THEN "equal" ELSE "differ"

FindCompare(h, element, x, size, equals) ==
    IF equals # NULL THEN PayloadEquals(h[element].data, x, size)
    ELSE Memcmp(h[element].data, x, size)

\* the loop over the first n elements, from head
RECURSIVE FindScan(_, _, _, _, _, _)
FindScan(h, element, n, x, size, equals) ==
    IF n = 0 THEN [st |-> "ok", element |-> NULL]
    ELSE IF element \notin Nodes THEN [st |-> "oops", element |-> NULL]
    ELSE LET c == FindCompare(h, element, x, size, equals) IN
         IF c = "oops" THEN [st |-> "oops", element |-> NULL]
         ELSE IF c = "equal" THEN [st |-> "ok", element |-> element]
         ELSE FindScan(h, h[element].next, n - 1, x, size, equals)

\* a find that scans from head only
Find_HeadFirst(l, x, size, equals) ==
    IF handle[l] = NULL \/ lst[l].size < 1 \/ ~(size # 0 \/ equals # NULL)
    THEN [st |-> "ok", element |-> NULL]
    ELSE FindScan(heap, lst[l].head, lst[l].size, x, size, equals)

Find(l, x, size, equals) ==
    IF handle[l] = NULL \/ lst[l].size < 1 \/ ~(size # 0 \/ equals # NULL)
    THEN [st |-> "ok", element |-> NULL]
    ELSE IF lst[l].tail \notin Nodes THEN [st |-> "oops", element |-> NULL]
    ELSE LET c == Memcmp(heap[lst[l].tail].data, x, size) IN
         IF c = "oops" THEN [st |-> "oops", element |-> NULL]
         ELSE IF c = "equal" THEN [st |-> "ok", element |-> lst[l].tail]
         ELSE FindScan(heap, lst[l].head, lst[l].size - 1, x, size, equals)

akvcam_list_find(l, x, size, equals) ==
    /\ status = "ok"
    /\ LET r == Find(l, x, size, equals) IN
       /\ status' = r.st
       /\ last' = [op |-> "find", l |-> l, arg |-> <<size, equals>>,
                   ok |-> (r.element # NULL), data |-> r.element,
                   deleter |-> NULL, log |-> <<>>]
    /\ UNCHANGED <<handle, lst, obj, heap, abs, calls, nextEid, lastError,
                   debug, nulling, mem, iter>>

\* ---- next ---------------------------------------------------------------
\* cursor is *element on entry; the result carries *element on return and
\* the payload returned.
ListNext(l, cursor) ==
    IF handle[l] = NULL THEN [st |-> "ok", cursor |-> cursor, data |-> NULL]
    ELSE IF cursor # NULL
    THEN IF cursor \notin Nodes
         THEN [st |-> "oops", cursor |-> cursor, data |-> NULL]
         ELSE LET n == heap[cursor].next IN
              IF n = NULL THEN [st |-> "ok", cursor |-> NULL, data |-> NULL]
              ELSE IF n \notin Nodes
              THEN [st |-> "oops", cursor |-> n, data |-> NULL]
              ELSE [st |-> "ok", cursor |-> n, data |-> heap[n].data]
    ELSE LET n == lst[l].head IN
         IF n = NULL THEN [st |-> "ok", cursor |-> NULL, data |-> NULL]
         ELSE IF n \notin Nodes
         THEN [st |-> "oops", cursor |-> n, data |-> NULL]
         ELSE [st |-> "ok", cursor |-> n, data |-> heap[n].data]

\* The caller's loop: it calls next with its cursor variable and stops when
\* the cursor comes back NULL; a call with a NULL cursor starts over.
akvcam_list_next(l) ==
    /\ status = "ok"
    /\ iter.l \in {0, l}
    /\ Len(iter.seen) <= MaxNodes
    /\ LET r == ListNext(l, iter.cursor)
           before == IF iter.cursor = NULL THEN <<>> ELSE iter.seen
       IN /\ status' = r.st
          /\ iter' = IF r.st # "ok" THEN iter
                     ELSE [l |-> l, cursor |-> r.cursor,
                           seen |-> IF r.cursor = NULL THEN before
                                    ELSE Append(before, r.data),
                           ended |-> (r.cursor = NULL)]
          /\ last' = [op |-> "next", l |-> l, arg |-> 0,
                      ok |-> (r.st = "ok" /\ r.cursor # NULL),
                      data |-> r.data, deleter |-> NULL, log |-> <<>>]
    /\ UNCHANGED <<handle, lst, obj, heap, abs, calls, nextEid, lastError,
                   debug, nulling, mem>>

\* ---- searching: push_back and find ---------------------------------------
\* The payload blocks hold any bytes.  The search buffer holds zero bytes:
\* find only compares bytes of a payload with bytes of the buffer at the
\* same offset, so its behaviour depends on which bytes agree and not on
\* their values.
InitFind ==
    /\ handle = [l \in Lists |-> l]
    /\ lst = [l \in Lists |-> akvcam_list_new(l)]
    /\ obj = [l \in Lists |-> akvcam_object_new]
    /\ heap = [a \in Nodes |-> ZeroNode]
    /\ abs = [l \in Lists |-> <<>>]
    /\ calls = [e \in Eids |-> 0]
    /\ nextEid = 1
    /\ lastError = 0
    /\ last = NoOp
    /\ status = "ok"
    /\ debug = FALSE
    /\ nulling = TRUE
    /\ mem \in [Eids \cup {TARGET} -> Blocks]
    /\ mem[TARGET] = ZeroBlock
    /\ iter = FreshIter

NextFind ==
    \/ \E l \in Own, data \in {NULL, nextEid}, element \in FreeSlots :
          akvcam_list_push_back(l, data, NULL, element)
    \/ \E l \in Own, size \in 0..BlockLen, equals \in {NULL, EQUALS} :
          akvcam_list_find(l, TARGET, size, equals)

SpecFind == InitFind /\ [][NextFind]_vars

\* ---- iterating: the mutators and next --------------------------------------
NextIter ==
    \/ \E l \in Own, data \in {NULL, nextEid},
          deleter \in {NULL, DELETER}, element \in FreeSlots :
          akvcam_list_push_back(l, data, deleter, element)
    \/ \E l \in Own, i \in 0..MaxPush : akvcam_list_pop(l, i)
    \/ \E l \in Own, element \in Nodes : akvcam_list_erase(l, element)
    \/ \E l \in Own : akvcam_list_clear(l)
    \/ \E l \in Own : akvcam_list_next(l)

SpecIter == Init /\ [][NextIter]_vars

\* ---- C11 ----------------------------------------------------------------
\* the teardown of list l has run to its end
TornDown(l) == status = "ok" /\ handle[l] = NULL

\* the element slots still allocated that no other list holds
NodesLeftBy(l) ==
    {a \in Nodes : /\ heap[a].live
                   /\ \A k \in Lists \ {l} : heap[a].eid \notin ElementIds(k)}

\* C11: once the teardown started by the count reaching zero has completed,
\* nothing allocated for the list is still allocated: no element node, not
\* the list structure (released together with the reset of the caller's
\* handle) and not the wrapper object made at creation.
C11_TeardownReleasesAll ==
    \A l \in Own : TornDown(l) => (NodesLeftBy(l) = {} /\ ~obj[l].live)

\* ---- C12 ----------------------------------------------------------------
PushFailed(l) ==
    /\ ~last'.ok
    /\ lastError' = -ENOMEM
    /\ status' = "ok"
    /\ UNCHANGED <<heap, lst, abs, calls>>

PushDone(l, data, deleter, element) ==
    /\ last'.ok
    /\ lastError' = 0
    /\ status' = "ok"
    /\ lst'[l].size = lst[l].size + 1
    /\ lst'[l].tail = element
    /\ heap'[element] = [live |-> TRUE, data |-> data, deleter |-> deleter,
                         prev |-> lst[l].tail, next |-> NULL, eid |-> nextEid]
    /\ abs'[l] = Append(abs[l], [eid |-> nextEid, data |-> data,
                                 deleter |-> deleter])
    /\ \A k \in Lists \ {l} : lst'[k] = lst[k] /\ abs'[k] = abs[k]
    /\ WellFormed(l)'
    /\ calls' = calls

\* C12: push_back on a list fails only when kzalloc returns NULL; it then
\* returns false, stores -ENOMEM in the last-error slot and leaves size,
\* head, tail and every element as they were.  Otherwise it returns true,
\* stores 0 in the last-error slot, the new element is the tail and size has
\* grown by exactly one.
C12_PushBackFailsOnlyOnAlloc ==
    [][\A l \in Lists, data \in {NULL} \cup Eids, deleter \in {NULL, DELETER},
          element \in {NULL} \cup Nodes :
          (WellFormed(l) /\ akvcam_list_push_back(l, data, deleter, element))
              => IF element = NULL THEN PushFailed(l)
                 ELSE PushDone(l, data, deleter, element)]_vars

C12_Witness ==
    /\ last.op = "push_back" /\ last.l = 1 /\ ~last.ok
    /\ lastError = -ENOMEM
    /\ Len(abs[1]) = 2 /\ lst[1].size = 2
    /\ WellFormed(1)

\* ---- C13 ----------------------------------------------------------------
\* C13: when the kmemdup inside push_back_copy fails, the list stays as it
\* was (same size, head, tail and elements), the call returns false and the
\* failure is stored in the last-error slot; no element without a payload is
\* appended.
C13_CopyFailureLeavesList ==
    [][\A l \in Own, deleter \in {NULL, DELETER}, element \in Nodes :
          (Live(l) /\ akvcam_list_push_back_copy(l, deleter, FALSE, element))
              => /\ ~last'.ok
                 /\ lastError' = -ENOMEM
                 /\ UNCHANGED <<heap, lst, abs>>]_vars

\* ---- C14 ----------------------------------------------------------------
\* every element of the list has a payload block
AllHavePayload(l) == \A k \in 1..Len(abs[l]) : abs[l][k].data \in DOMAIN mem

\* the positions whose payload holds the bytes of block x
Holders(l, x) ==
    {k \in 1..Len(abs[l]) :
        abs[l][k].data \in DOMAIN mem /\ mem[abs[l][k].data] = mem[x]}

\* C14: find with a predicate that is true only for payloads equal to X,
\* and with any length (0 too), returns the element that holds X when X is
\* in the list exactly once, wherever it is (the tail too), and returns
\* NULL when X is not in the list.
C14_FindWithPredicate ==
    [][\A l \in Own, size \in 0..BlockLen :
          (/\ WellFormed(l) /\ AllHavePayload(l)
           /\ Cardinality(Holders(l, TARGET)) <= 1
           /\ akvcam_list_find(l, TARGET, size, EQUALS))
              => /\ status' = "ok"
                 /\ last'.data = IF Holders(l, TARGET) = {} THEN NULL
                                 ELSE Chain(l)[CHOOSE k \in Holders(l, TARGET) : TRUE]
          ]_vars

\* ---- C15 ----------------------------------------------------------------
\* the payloads of the list, head to tail
Payloads(l) == [k \in 1..Len(abs[l]) |-> abs[l][k].data]

IsPrefix(s, t) == Len(s) <= Len(t) /\ s = SubSeq(t, 1, Len(s))

\* C15: the next() calls made from a fresh cursor, on the list as the last
\* push_back, pop, erase or clear left it, return the payloads of the list
\* in head-to-tail order, each element once, and the call after the last
\* element reports the end (what has been returned so far is always a
\* prefix of the payloads, and it is all of them when the end is reported).
C15_NextVisitsContents ==
    \A l \in Own :
        (Live(l) /\ iter.l = l)
            => /\ IsPrefix(iter.seen, Payloads(l))
               /\ iter.ended => iter.seen = Payloads(l)

\* ---- C16 ----------------------------------------------------------------
\* what the queries return on list l
QueriesSayAbsent(l) ==
    /\ akvcam_list_size(l) = 0
    /\ akvcam_list_empty(l)
    /\ \A i \in 0..MaxPush : akvcam_list_at(l, i).kind = "null"
    /\ \A size \in 0..BlockLen, equals \in {NULL, EQUALS} :
          Find(l, TARGET, size, equals) = [st |-> "ok", element |-> NULL]
    /\ \A cursor \in {NULL} \cup Nodes :
          /\ ListNext(l, cursor).st = "ok"
          /\ ListNext(l, cursor).data = NULL

\* C16: with an absent list handle every operation is a no-op that cannot
\* fault: size is 0, is_empty is true, at, find and next return NULL,
\* push_back, push_back_copy and pop return false, and erase, clear and
\* destroy change nothing.
C16_AbsentHandleIsSafe ==
    [][\A l \in Own :
          handle[l] = NULL
              => /\ QueriesSayAbsent(l)
                 /\ last'.l = l
                       => /\ status' = "ok"
                          /\ ~last'.ok
                          /\ UNCHANGED <<heap, lst, abs, calls, handle, obj,
                                         lastError>>]_vars

\* ---- C17 ----------------------------------------------------------------
\* C17: clear() resets size, head and tail and nothing else: the list still
\* holds the wrapper it held before, with the use count it had, and the
\* caller's handle stays valid.
C17_ClearKeepsWrapper ==
    [][\A l \in Own :
          (Live(l) /\ lst[l].self # NULL /\ akvcam_list_clear(l))
              => /\ lst'[l].self = lst[l].self
                 /\ obj'[l] = obj[l]
                 /\ handle'[l] = handle[l]]_vars

\* ---- C18 ----------------------------------------------------------------
\* the positions whose payload agrees with block x in its first size bytes
ByteMatches(l, x, size) ==
    {k \in 1..Len(abs[l]) :
        \A j \in 1..size : mem[abs[l][k].data][j] = mem[x][j]}

\* the element met first when the tail is examined first and then the
\* elements from head on
ScanOrderHit(l, x, size) ==
    LET n == Len(abs[l])
        hits == ByteMatches(l, x, size)
    IN IF n \in hits THEN Chain(l)[n]
       ELSE IF hits = {} THEN NULL
       ELSE Chain(l)[CHOOSE k \in hits : \A j \in hits : k <= j]

\* C18: find with a non-zero length and no predicate, on a non-empty list
\* whose elements have payloads, examines the tail first and then the
\* elements from head up to the one before the tail: it returns the tail if
\* the tail matches, otherwise the matching element closest to the head,
\* otherwise NULL.  It returns NULL when the list is empty, and when neither
\* a length nor a predicate is given.
C18_FindScanOrder ==
    [][\A l \in Own, size \in 0..BlockLen, equals \in {NULL, EQUALS} :
          (WellFormed(l) /\ akvcam_list_find(l, TARGET, size, equals))
              => /\ (lst[l].size = 0 \/ (size = 0 /\ equals = NULL))
                       => (status' = "ok" /\ last'.data = NULL)
                 /\ (lst[l].size > 0 /\ size > 0 /\ equals = NULL
                                     /\ AllHavePayload(l))
                       => /\ status' = "ok"
                          /\ last'.data = ScanOrderHit(l, TARGET, size)
                          /\ UNCHANGED <<heap, lst, abs, calls>>]_vars

C18_Witness ==
    /\ last.op = "find" /\ last.l = 1 /\ status = "ok"
    /\ last.arg = <<1, NULL>>
    /\ WellFormed(1) /\ AllHavePayload(1)
    /\ Len(abs[1]) = 3
    /\ ByteMatches(1, TARGET, 1) = {1, 3}
    /\ mem[abs[1][1].data] # mem[abs[1][3].data]
    /\ last.data = lst[1].tail

\* ---- C19 ----------------------------------------------------------------
\* the slots that head, tail and the links of the slots so reached lead to
Reachable(l) ==
    Reach(heap, {a \in Nodes : a \in {lst[l].head, lst[l].tail}})

\* C19: after any sequence of push_back, pop, erase and clear on a list,
\* neither head, tail nor a prev/next link of a node reachable from them
\* refers to a node that has been freed.
C19_NoDanglingLinks ==
    \A l \in Own : Live(l) => \A a \in Reachable(l) : heap[a].live

\* ---- C20 ----------------------------------------------------------------
\* the elements of l that the step releases
ReleasedFrom(l) ==
    {k \in 1..Len(abs[l]) : abs[l][k].eid \notin ElementIds(l)'}

\* C20: every element that has a deleter and is removed by clear, erase or
\* the final destroy has that deleter called exactly once, whatever its
\* payload handle is (NULL too).
C20_DeleterCalledOnRemoval ==
    [][\A l \in Own :
          (/\ WellFormed(l)
           /\ last'.l = l
           /\ last'.op \in {"clear", "erase", "delete"}
           /\ status' = "ok")
              => \A k \in ReleasedFrom(l) :
                    abs[l][k].deleter # NULL
                        => /\ calls'[abs[l][k].eid] = 1
                           /\ calls[abs[l][k].eid] = 0]_vars

====
